---- MODULE Spec2Model ----
(***************************************************************************)
(* A model of monitor_numbers.py: a polling loop that samples one number   *)
(* from a shell command or a file, gates it by an optional range and       *)
(* beeps when it moved by more than a threshold from the held baseline.    *)
(*                                                                         *)
(* Text is a sequence of one-character strings.  A Python float is a       *)
(* record: a finite decimal m * 10^e (kept normalised), nan, +inf or -inf; *)
(* None and the ValueError of float() are two more records of the same     *)
(* shape.  Finite arithmetic is exact decimal arithmetic: the binary       *)
(* rounding of IEEE doubles is not modelled, their nan and inf rules are.  *)
(***************************************************************************)
EXTENDS Integers, Sequences, FiniteSets, TLC

VARIABLES pc, args, outcome, text, value, last_value, in_range, beeped,
          printed, old_last, discarded, prev_sample, seen, nalerts,
          attempts, sleeps, slept, reader, reported

vars == <<pc, args, outcome, text, value, last_value, in_range, beeped,
          printed, old_last, discarded, prev_sample, seen, nalerts,
          attempts, sleeps, slept, reader, reported>>

(***************************************************************************)
(* Bounds of the model.                                                    *)
(***************************************************************************)
MaxLen == 4
MaxAlerts == 2
MaxAttempts == 3

(***************************************************************************)
(* Optional[float]                                                         *)
(***************************************************************************)
None == [k |-> "none", m |-> 0, e |-> 0]
ValueError == [k |-> "ValueError", m |-> 0, e |-> 0]
NaN == [k |-> "nan", m |-> 0, e |-> 0]
Inf(sign) == [k |-> "inf", m |-> sign, e |-> 0]

RECURSIVE Pow10(_)
Pow10(n) == IF n <= 0 THEN 1 ELSE 10 * Pow10(n - 1)

AbsInt(n) == IF n < 0 THEN -n ELSE n

RECURSIVE NumDigits(_)
NumDigits(n) == IF AbsInt(n) < 10 THEN 1 ELSE 1 + NumDigits(AbsInt(n) \div 10)

\* the decimal m * 10^e with the trailing zeros of m moved into e
RECURSIVE Normal(_, _)
Normal(m, e) ==
    IF m = 0 THEN [k |-> "fin", m |-> 0, e |-> 0]
    ELSE IF m % 10 = 0 THEN Normal(m \div 10, e + 1)
    ELSE [k |-> "fin", m |-> m, e |-> e]

\* the first four significant digits of a normalised mantissa
Lead4(m) ==
    LET d == NumDigits(m)
    IN  IF d <= 4 THEN AbsInt(m) * Pow10(4 - d) ELSE AbsInt(m) \div Pow10(d - 4)

\* the double nearest to the decimal m * 10^e: beyond the largest double
\* (1.7976931348623157e308) it is an infinity, below half of the smallest
\* subnormal (4.94e-324) it is zero
Double(m, e) ==
    LET n == Normal(m, e)
        p == NumDigits(n.m) + n.e
        sign == IF m < 0 THEN -1 ELSE 1
    IN  IF n.m = 0 THEN n
        ELSE IF p > 309 \/ (p = 309 /\ Lead4(n.m) >= 1798) THEN Inf(sign)
        ELSE IF p < -323 \/ (p = -323 /\ Lead4(n.m) < 2470) THEN Normal(0, 0)
        ELSE n

Fin(n) == Normal(n, 0)

\* the mantissas of two finite floats over their common (smaller) exponent
Aligned(a, b) ==
    LET e0 == IF a.e < b.e THEN a.e ELSE b.e
    IN  <<a.m * Pow10(a.e - e0), b.m * Pow10(b.e - e0), e0>>

\* a < b on floats: every comparison with nan is False
Lt(a, b) ==
    IF a.k = "nan" \/ b.k = "nan" THEN FALSE
    ELSE IF a.k = "inf" /\ b.k = "inf" THEN a.m < b.m
    ELSE IF a.k = "inf" THEN a.m < 0
    ELSE IF b.k = "inf" THEN b.m > 0
    ELSE Aligned(a, b)[1] < Aligned(a, b)[2]

\* a > b on floats
Gt(a, b) == Lt(b, a)

\* a - b on floats: nan propagates, inf - inf is nan
Sub(a, b) ==
    IF a.k = "nan" \/ b.k = "nan" THEN NaN
    ELSE IF a.k = "inf" /\ b.k = "inf" THEN IF a.m = b.m THEN NaN ELSE a
    ELSE IF a.k = "inf" THEN a
    ELSE IF b.k = "inf" THEN Inf(-b.m)
    ELSE LET al == Aligned(a, b) IN Normal(al[1] - al[2], al[3])

\* abs(a) on floats
Abs(a) ==
    IF a.k = "nan" THEN NaN
    ELSE IF a.k = "inf" THEN Inf(1)
    ELSE [a EXCEPT !.m = AbsInt(a.m)]

(***************************************************************************)
(* float(token)                                                            *)
(***************************************************************************)
Digits == {"0", "1", "2", "3", "4", "5", "6", "7", "8", "9"}

DigitVal(c) ==
    CASE c = "0" -> 0 [] c = "1" -> 1 [] c = "2" -> 2 [] c = "3" -> 3
      [] c = "4" -> 4 [] c = "5" -> 5 [] c = "6" -> 6 [] c = "7" -> 7
      [] c = "8" -> 8 [] c = "9" -> 9

\* str.lower() on the letters of inf, infinity and nan
Lower(c) ==
    CASE c = "I" -> "i" [] c = "N" -> "n" [] c = "F" -> "f" [] c = "T" -> "t"
      [] c = "Y" -> "y" [] c = "A" -> "a" [] OTHER -> c

LowerAll(s) == [i \in 1..Len(s) |-> Lower(s[i])]

\* the index of the first character of s that is in C, or 0
IndexOf(s, C) ==
    IF \E i \in 1..Len(s) : s[i] \in C
    THEN CHOOSE i \in 1..Len(s) : s[i] \in C /\ \A j \in 1..(i - 1) : s[j] \notin C
    ELSE 0

\* digit (["_"] digit)*
IsDigitPart(s) ==
    /\ Len(s) > 0
    /\ \A i \in 1..Len(s) :
          \/ s[i] \in Digits
          \/ /\ s[i] = "_"
             /\ i > 1 /\ i < Len(s)
             /\ s[i - 1] \in Digits /\ s[i + 1] \in Digits

IsDigitChar(c) == c \in Digits

RECURSIVE DecVal(_)
DecVal(s) ==
    IF s = <<>> THEN 0
    ELSE DecVal(SubSeq(s, 1, Len(s) - 1)) * 10 + DigitVal(s[Len(s)])

\* the digits of a digit part, as a number
DigitPartVal(s) == DecVal(SelectSeq(s, IsDigitChar))

\* float(token) for a token without whitespace:
\*   [sign] (inf | infinity | nan | floatnumber), letters in either case,
\*   floatnumber = ([digitpart] "." digitpart | digitpart ["."]) [exponent],
\*   exponent = ("e" | "E") [sign] digitpart
float(token) ==
    LET signed == Len(token) > 0 /\ token[1] \in {"+", "-"}
        sign == IF signed /\ token[1] = "-" THEN -1 ELSE 1
        u == IF signed THEN Tail(token) ELSE token
        ei == IndexOf(u, {"e", "E"})
        mant == IF ei = 0 THEN u ELSE SubSeq(u, 1, ei - 1)
        expo == IF ei = 0 THEN <<>> ELSE SubSeq(u, ei + 1, Len(u))
        esigned == Len(expo) > 0 /\ expo[1] \in {"+", "-"}
        esign == IF esigned /\ expo[1] = "-" THEN -1 ELSE 1
        edigits == IF esigned THEN Tail(expo) ELSE expo
        di == IndexOf(mant, {"."})
        ip == IF di = 0 THEN mant ELSE SubSeq(mant, 1, di - 1)
        fp == IF di = 0 THEN <<>> ELSE SubSeq(mant, di + 1, Len(mant))
        fdigits == SelectSeq(fp, IsDigitChar)
        ok == /\ ip = <<>> \/ IsDigitPart(ip)
              /\ fp = <<>> \/ IsDigitPart(fp)
              /\ ~(ip = <<>> /\ fp = <<>>)
              /\ ei = 0 \/ IsDigitPart(edigits)
    IN  IF LowerAll(u) \in {<<"i", "n", "f">>,
                            <<"i", "n", "f", "i", "n", "i", "t", "y">>}
        THEN Inf(sign)
        ELSE IF LowerAll(u) = <<"n", "a", "n">> THEN NaN
        ELSE IF ~ok THEN ValueError
        ELSE Double(sign * (DigitPartVal(ip) * Pow10(Len(fdigits)) + DigitPartVal(fp)),
                    (IF ei = 0 THEN 0 ELSE esign * DigitPartVal(edigits)) - Len(fdigits))

(***************************************************************************)
(* text.replace(",", " ").split()                                          *)
(***************************************************************************)
\* the characters str.split() treats as separators
Whitespace == {" ", "\t", "\n"}

\* no replacement of the commas
replace_nothing(s) == s

\* str.replace(",", " ")
replace(s) == [i \in 1..Len(s) |-> IF s[i] = "," THEN " " ELSE s[i]]

\* str.split(): the runs of non-whitespace characters, in order
RECURSIVE split(_)
split(s) ==
    IF s = <<>> THEN <<>>
    ELSE IF s[1] \in Whitespace THEN split(Tail(s))
    ELSE LET w == IndexOf(s, Whitespace)
         IN  IF w = 0 THEN <<s>>
             ELSE <<SubSeq(s, 1, w - 1)>> \o split(SubSeq(s, w + 1, Len(s)))

\* the for loop over the tokens: the first token float() accepts, or None
RECURSIVE first_float(_)
first_float(tokens) ==
    IF tokens = <<>> THEN None
    ELSE IF float(Head(tokens)) # ValueError THEN float(Head(tokens))
    ELSE first_float(Tail(tokens))

\* the extraction both sources run on the text they read
extract(s) == first_float(split(replace(s)))

(***************************************************************************)
(* The environment: what a command prints and what a file holds.           *)
(***************************************************************************)
\* the texts a source yields while the monitor runs
Texts == { <<"0">>, <<"1">>, <<"2">>, <<"3">>, <<"n", "a", "n">>, <<"x">> }

\* the command lines: parse_arguments() accepts exactly one of --command
\* (any string, the empty one included) and --file
Sources == { [command |-> "cmd", file |-> "absent"],
             [command |-> "empty", file |-> "absent"],
             [command |-> "absent", file |-> "path"] }

MinValues == { None, Fin(1), Fin(3) }
MaxValues == { None, Fin(2) }
Thresholds == { Fin(-1), Fin(0), Fin(1) }
Intervals == { Fin(1), Double(5, -1) }

Args == { [command |-> s.command, file |-> s.file, interval |-> i,
           min_value |-> lo, max_value |-> hi, threshold |-> t] :
          s \in Sources, i \in Intervals, lo \in MinValues, hi \in MaxValues,
          t \in Thresholds }

NoLine == [old |-> None, new |-> None]

Inc(n, max) == IF n < max THEN n + 1 ELSE n

(***************************************************************************)
(* fetch_value_from_command, fetch_value_from_file                         *)
(***************************************************************************)
\* what every sample attempt does to the bookkeeping of the run
BeginAttempt ==
    /\ old_last' = last_value
    /\ prev_sample' = IF value # None THEN value ELSE prev_sample
    /\ attempts' = Inc(attempts, MaxAttempts)
    /\ sleeps' = 0
    /\ beeped' = "none"
    /\ printed' = NoLine
    /\ in_range' = FALSE
    /\ UNCHANGED <<args, last_value, discarded, seen, nalerts, slept, reported>>

\* the sample a successfully read text gives
Extracted(s) ==
    /\ text' = s
    /\ value' = extract(s)
    /\ outcome' = IF extract(s) = None THEN "no_number" ELSE "value"
    /\ pc' = "check"

\* subprocess.run() raised while decoding the output, or read_text() raised
\* something that is not an OSError: nothing in monitor() catches it
Raised(kind) ==
    /\ text' = <<>>
    /\ value' = None
    /\ outcome' = kind
    /\ pc' = "crashed"

\* a reported failure after which the text is searched for a number anyway
Failed_extracting(kind, s) ==
    /\ text' = s
    /\ value' = extract(s)
    /\ outcome' = kind
    /\ pc' = "check"

\* a failure the function reports on stderr and turns into None
Failed(kind, s) ==
    /\ text' = s
    /\ value' = None
    /\ outcome' = kind
    /\ pc' = "check"

fetch_value_from_command(T) ==
    /\ pc = "fetch"
    /\ args.command = "cmd"
    /\ BeginAttempt
    /\ reader' = "command"
    /\ \/ \E stdout \in T : Failed("nonzero_exit", stdout)
       \/ Raised("decode_error")
       \/ \E stdout \in T : Extracted(stdout)

fetch_value_from_file(T) ==
    /\ pc = "fetch"
    /\ args.command # "cmd"
    /\ BeginAttempt
    /\ reader' = "file"
    /\ IF args.file = "absent" THEN Raised("attribute_error")
       ELSE \/ Failed("not_found", <<>>)
            \/ Failed("os_error", <<>>)
            \/ Raised("decode_error")
            \/ \E content \in T : Extracted(content)

(***************************************************************************)
(* beep, value_in_range                                                    *)
(***************************************************************************)
\* what beep() does given how winsound and the write to stdout fare
beep(winsound, stdout) ==
    IF winsound = "ok" THEN "tone"
    ELSE IF stdout = "ok" THEN "bell"
    ELSE "raises"

BeepResults == { beep(w, s) : w \in {"ok", "ImportError", "RuntimeError"},
                              s \in {"ok", "OSError"} }

\* value_in_range without its check of the upper bound
value_in_range_no_max(v, min_value, max_value) ==
    IF min_value # None /\ Lt(v, min_value) THEN FALSE
    ELSE TRUE

\* value_in_range with exclusive bounds (<= and >= for < and >)
value_in_range_exclusive(v, min_value, max_value) ==
    IF min_value # None /\ ~Gt(v, min_value) THEN FALSE
    ELSE IF max_value # None /\ ~Lt(v, max_value) THEN FALSE
    ELSE TRUE

value_in_range(v, min_value, max_value) ==
    IF min_value # None /\ Lt(v, min_value) THEN FALSE
    ELSE IF max_value # None /\ Gt(v, max_value) THEN FALSE
    ELSE TRUE

\* the comparison with >= for >
changed_ge(v, b, threshold) == ~Lt(Abs(Sub(v, b)), threshold)

\* abs(value - last_value) > args.threshold
changed(v, b, threshold) == Gt(Abs(Sub(v, b)), threshold)

(***************************************************************************)
(* monitor: the body of the loop after the fetch                           *)
(***************************************************************************)
\* a missing sample handled like a sample out of range
no_sample_reset ==
    /\ pc = "check"
    /\ value = None
    /\ last_value' = None
    /\ pc' = "sleep_continue"
    /\ UNCHANGED <<args, outcome, text, value, in_range, beeped,
                   printed, old_last, discarded, prev_sample, seen, nalerts,
                   attempts, sleeps, slept, reader, reported>>

\* if value is None: (go to) time.sleep(args.interval); continue
no_sample ==
    /\ pc = "check"
    /\ value = None
    /\ pc' = "sleep_continue"
    /\ UNCHANGED <<args, outcome, text, value, last_value, in_range, beeped,
                   printed, old_last, discarded, prev_sample, seen, nalerts,
                   attempts, sleeps, slept, reader, reported>>

\* the arms with the comparison tried before the test for a missing baseline
branch_no_first(v, last, min_value, max_value, threshold) ==
    IF ~value_in_range(v, min_value, max_value) THEN "reset"
    ELSE IF changed(v, last, threshold) THEN "alert"
    ELSE IF last = None THEN "first"
    ELSE "keep"

\* which arm of the if / elif / elif a sample takes
branch(v, last, min_value, max_value, threshold) ==
    IF ~value_in_range(v, min_value, max_value) THEN "reset"
    ELSE IF last = None THEN "first"
    ELSE IF changed(v, last, threshold) THEN "alert"
    ELSE "keep"

\* the baseline an alert leaves unchanged
after_alert_stale(v, last) == last

\* last_value = value after the alert
after_alert(v, last) == v

\* the if / elif / elif on a sample
detect ==
    /\ pc = "check"
    /\ value # None
    /\ in_range' = value_in_range(value, args.min_value, args.max_value)
    /\ seen' = seen \cup {value}
    /\ LET arm == branch(value, last_value, args.min_value, args.max_value,
                         args.threshold)
       IN  CASE arm = "reset" ->
                 /\ last_value' = None
                 /\ discarded' = IF last_value # None THEN last_value ELSE discarded
                 /\ reported' = None
                 /\ pc' = "sleep"
                 /\ UNCHANGED <<beeped, printed, nalerts>>
             [] arm = "first" ->
                 /\ last_value' = value
                 /\ pc' = "sleep"
                 /\ UNCHANGED <<beeped, printed, nalerts, discarded, reported>>
             [] arm = "alert" ->
                 \E b \in BeepResults :
                    IF b = "raises"
                    THEN /\ pc' = "crashed"
                         /\ UNCHANGED <<last_value, beeped, printed, nalerts,
                                        discarded, reported>>
                    ELSE /\ beeped' = b
                         /\ printed' = [old |-> last_value, new |-> value]
                         /\ nalerts' = Inc(nalerts, MaxAlerts)
                         /\ reported' = value
                         /\ last_value' = after_alert(value, last_value)
                         /\ pc' = "sleep"
                         /\ UNCHANGED discarded
             [] arm = "keep" ->
                 /\ pc' = "sleep"
                 /\ UNCHANGED <<last_value, beeped, printed, nalerts, discarded,
                                reported>>
    /\ UNCHANGED <<args, outcome, text, value, old_last, prev_sample,
                   attempts, sleeps, slept, reader>>

\* time.sleep(args.interval) at position at, then back to the top of the loop
sleep(at) ==
    /\ pc = at
    /\ sleeps' = sleeps + 1
    /\ slept' = args.interval
    /\ pc' = "fetch"
    /\ UNCHANGED <<args, outcome, text, value, last_value, in_range, beeped,
                   printed, old_last, discarded, prev_sample, seen, nalerts,
                   attempts, reader, reported>>

\* continue without the sleep
continue_without_sleep ==
    /\ pc = "sleep_continue"
    /\ pc' = "fetch"
    /\ UNCHANGED <<args, outcome, text, value, last_value, in_range, beeped,
                   printed, old_last, discarded, prev_sample, seen, nalerts,
                   attempts, sleeps, slept, reader, reported>>

\* time.sleep(args.interval); continue
sleep_continue == sleep("sleep_continue")

\* time.sleep(args.interval) at the end of the body
sleep_end == sleep("sleep")

(***************************************************************************)
(* The monitor from its start.                                             *)
(***************************************************************************)
\* the process at position at with any of the argument sets A
Start(A, at) ==
    /\ pc = at
    /\ args \in A
    /\ outcome = "none"
    /\ text = <<>>
    /\ value = None
    /\ last_value = None
    /\ in_range = FALSE
    /\ beeped = "none"
    /\ printed = NoLine
    /\ old_last = None
    /\ discarded = None
    /\ prev_sample = None
    /\ seen = {}
    /\ nalerts = 0
    /\ attempts = 0
    /\ sleeps = 0
    /\ slept = None
    /\ reader = "none"
    /\ reported = None

Init == Start(Args, "fetch")

FetchCommand == fetch_value_from_command(Texts)
FetchFile == fetch_value_from_file(Texts)

Next ==
    \/ FetchCommand
    \/ FetchFile
    \/ no_sample
    \/ detect
    \/ sleep_continue
    \/ sleep_end

Spec == Init /\ [][Next]_vars

(***************************************************************************)
(* The extraction alone: one sample attempt on every short text.           *)
(***************************************************************************)
Alphabet == {"1", "5", ".", "-", "e", "n", "a", "%", ",", " "}

cpu_mem == <<"c", "p", "u", ":", " ", "4", "2", ".", "5", "%", ",", " ",
             "m", "e", "m", " ", "1", "0">>

no_numbers == <<"n", "o", " ", "n", "u", "m", "b", "e", "r", "s", " ",
                "h", "e", "r", "e">>

Blobs == UNION { [1..n -> Alphabet] : n \in 0..MaxLen } \cup {cpu_mem, no_numbers}

InitExtract ==
    /\ Init
    /\ args.command # "empty"
    /\ args.min_value = None /\ args.max_value = None
    /\ args.threshold = Fin(0)

ExtractCommand == fetch_value_from_command(Blobs)
ExtractFile == fetch_value_from_file(Blobs)

NextExtract == ExtractCommand \/ ExtractFile

SpecExtract == InitExtract /\ [][NextExtract]_vars

(***************************************************************************)
(* The scenario of a file that changes between two iterations:             *)
(* --file F --min 0 --max 10 --threshold 0, F holding 7.0 or 7.5.          *)
(***************************************************************************)
seven == <<"7", ".", "0">>
seven_and_a_half == <<"7", ".", "5">>

FileTexts == { seven, seven_and_a_half }

FileArgs == { [command |-> "absent", file |-> "path", interval |-> Fin(1),
               min_value |-> Fin(0), max_value |-> Fin(10),
               threshold |-> Fin(0)] }

InitFile == Start(FileArgs, "fetch")

ReadFile == fetch_value_from_file(FileTexts)

NextFile ==
    \/ ReadFile
    \/ no_sample
    \/ detect
    \/ sleep_continue
    \/ sleep_end

SpecFile == InitFile /\ [][NextFile]_vars

(***************************************************************************)
(* main: parse_arguments() and then monitor(), for every way of giving     *)
(* --command and --file.                                                   *)
(***************************************************************************)
Invocations == { [command |-> c, file |-> f] :
                 c \in {"absent", "empty", "cmd"}, f \in {"absent", "path"} }

MainArgs == { [command |-> s.command, file |-> s.file, interval |-> Fin(1),
               min_value |-> None, max_value |-> None, threshold |-> Fin(0)] :
              s \in Invocations }

\* the required mutually exclusive group: with both options or with neither
\* the parser reports a usage error and the process exits with status 2
parse_arguments ==
    /\ pc = "parse"
    /\ pc' = IF (args.command # "absent") # (args.file # "absent")
             THEN "fetch" ELSE "exit_2"
    /\ UNCHANGED <<args, outcome, text, value, last_value, in_range, beeped,
                   printed, old_last, discarded, prev_sample, seen, nalerts,
                   attempts, sleeps, slept, reader, reported>>

InitMain == Start(MainArgs, "parse")

NextMain ==
    \/ parse_arguments
    \/ FetchCommand
    \/ FetchFile
    \/ no_sample
    \/ detect
    \/ sleep_continue
    \/ sleep_end

SpecMain == InitMain /\ [][NextMain]_vars

(***************************************************************************)
(* Properties.                                                             *)
(***************************************************************************)
\* v is below the lower bound, above the upper bound, outside the range
Below(v) == args.min_value # None /\ Lt(v, args.min_value)
Above(v) == args.max_value # None /\ Gt(v, args.max_value)
Outside(v) == Below(v) \/ Above(v)

\* abs(v - b) > threshold, abs(v - b) <= threshold, threshold >= 0
Exceeds(v, b) == Gt(Abs(Sub(v, b)), args.threshold)
Within(v, b) ==
    /\ Abs(Sub(v, b)).k # "nan" /\ args.threshold.k # "nan"
    /\ ~Gt(Abs(Sub(v, b)), args.threshold)
NonNegative(t) == t.k # "nan" /\ ~Lt(t, Fin(0))

\* both bounds are given and min > max
Inverted == /\ args.min_value # None /\ args.max_value # None
            /\ Gt(args.min_value, args.max_value)

\* the latest sample attempt gave a sample and the loop has acted on it
Detected == outcome = "value" /\ pc \in {"sleep", "crashed", "fetch"}

\* the latest sample attempt is over, whatever it gave
Attempted == attempts > 0 /\ pc \in {"sleep", "sleep_continue", "crashed", "fetch"}

AlertLine(old, new) == [old |-> old, new |-> new]

\* C1: an iteration beeps and prints "Value changed: old -> new" if and only
\* if it obtained a sample v that is in range while a baseline b was held
\* with abs(v - b) > threshold; the line reports b -> v and the baseline is
\* v afterwards.
C1_AlertIffChanged ==
    Attempted =>
       LET due == /\ outcome = "value"
                  /\ ~Outside(value)
                  /\ old_last # None
                  /\ Exceeds(value, old_last)
       IN  /\ (printed # NoLine /\ beeped # "none") <=> due
           /\ due => printed = AlertLine(old_last, value) /\ last_value = value

\* C2: the baseline is the last reported (or first in-range) value: an
\* in-range sample within threshold of the baseline b leaves the baseline
\* at b, and an in-range sample further than threshold from b is reported,
\* however close it is to the sample before it.
C2_BaselineIsLastReported ==
    (Detected /\ ~Outside(value) /\ old_last # None) =>
       /\ Within(value, old_last) => last_value = old_last /\ printed = NoLine
       /\ Exceeds(value, old_last) => printed = AlertLine(old_last, value)

\* C3: an iteration whose sample is outside the range fires no alert and
\* leaves no baseline, whatever baseline was held before.
C3_OutOfRangeDropsBaseline ==
    (Detected /\ Outside(value)) =>
       /\ printed = NoLine /\ beeped = "none"
       /\ last_value = None
       /\ pc # "crashed"

C3_Witness ==
    /\ Detected /\ pc = "sleep"
    /\ Outside(value)
    /\ old_last # None
    /\ last_value = None

\* C4: an in-range sample that arrives while no baseline is held fires no
\* alert and becomes the baseline, however far it is from the baseline that
\* an out-of-range sample discarded.
C4_FirstInRangeIsSilent ==
    (Detected /\ ~Outside(value) /\ old_last = None) =>
       /\ printed = NoLine /\ beeped = "none"
       /\ last_value = value
       /\ pc # "crashed"

C4_Witness ==
    /\ Detected /\ pc = "sleep"
    /\ ~Outside(value)
    /\ old_last = None
    /\ discarded # None /\ Exceeds(value, discarded)
    /\ last_value = value /\ printed = NoLine

\* C5: with threshold >= 0, as long as every sample of the run is the same
\* in-range value no alert fires: the first sample becomes the baseline and
\* every repetition leaves the baseline as it was.
C5_SameValueNeverAlerts ==
    (/\ NonNegative(args.threshold)
     /\ Cardinality(seen) <= 1
     /\ \A v \in seen : ~Outside(v)) =>
       /\ nalerts = 0 /\ printed = NoLine /\ beeped = "none"
       /\ Detected => last_value = value
       /\ (Detected /\ old_last # None) => last_value = old_last
       /\ pc = "crashed" => outcome # "value"

C5_Witness ==
    /\ Detected /\ pc = "sleep"
    /\ args.threshold = Fin(0)
    /\ ~Outside(value)
    /\ seen = {value}
    /\ old_last = value /\ last_value = value
    /\ nalerts = 0

\* C6: the loop has no terminal state: whatever a sample attempt gives, the
\* loop goes on to sleep and to a further attempt.
C6_LoopHasNoTerminalState == pc # "crashed"

\* C7: between two consecutive sample attempts there is exactly one sleep,
\* of the configured interval, after a failed attempt as after a sample.
C7_OneSleepBetweenAttempts ==
    /\ (pc = "fetch" /\ attempts > 0) => sleeps = 1 /\ slept = args.interval
    /\ pc # "fetch" => sleeps = 0

C7_Witness ==
    /\ pc = "fetch" /\ attempts > 0
    /\ outcome \in {"nonzero_exit", "not_found", "os_error", "no_number"}
    /\ sleeps = 1 /\ slept = args.interval

\* C8 as stated: value_in_range is false exactly when the value is below a
\* given min or above a given max; a value equal to min or to max is in
\* range, and every value is in range when no bound is given.
C8_InRangeExact ==
    Detected =>
       /\ in_range = ~Outside(value)
       /\ (value = args.min_value \/ value = args.max_value) => in_range
       /\ (args.min_value = None /\ args.max_value = None) => in_range

\* C8: value_in_range is false exactly when the value is below a given min
\* or above a given max; a value equal to min is in range unless it is
\* above max, a value equal to max is in range unless it is below min, and
\* every value is in range when no bound is given.
C8_InRangeExactAmended ==
    Detected =>
       /\ in_range = ~Outside(value)
       /\ (value = args.min_value /\ ~Above(value)) => in_range
       /\ (value = args.max_value /\ ~Below(value)) => in_range
       /\ (args.min_value = None /\ args.max_value = None) => in_range

C8_Witness ==
    /\ Detected
    /\ value = args.min_value
    /\ args.max_value # None
    /\ in_range

\* C9: with an inverted range every sample is rejected as out of range, so
\* no baseline is ever held and no alert ever fires.
C9_InvertedRangeRejectsAll ==
    Inverted =>
       /\ Detected => ~in_range
       /\ last_value = None
       /\ nalerts = 0 /\ printed = NoLine

\* the separators of the tokens: whitespace and the comma
Delimiters == Whitespace \cup {","}

\* s[i..j] is a token of s: a longest stretch without a separator
IsToken(s, i, j) ==
    /\ 1 <= i /\ i <= j /\ j <= Len(s)
    /\ \A n \in i..j : s[n] \notin Delimiters
    /\ i = 1 \/ s[i - 1] \in Delimiters
    /\ j = Len(s) \/ s[j + 1] \in Delimiters

\* s[i..j] is a token of s that float() accepts
Parses(s, i, j) == IsToken(s, i, j) /\ float(SubSeq(s, i, j)) # ValueError

\* the value of the leftmost token of s that float() accepts, or None
FirstParsing(s) ==
    IF \E i, j \in 1..Len(s) : Parses(s, i, j)
    THEN LET ij == CHOOSE ij \in (1..Len(s)) \X (1..Len(s)) :
                      /\ Parses(s, ij[1], ij[2])
                      /\ \A i, j \in 1..Len(s) : Parses(s, i, j) => ij[1] <= i
         IN  float(SubSeq(s, ij[1], ij[2]))
    ELSE None

\* the sample attempt read a text and ran the extraction on it
Extraction == pc = "check" /\ outcome \in {"value", "no_number"}

C11_NonZeroExitYieldsNoSample ==
    outcome = "nonzero_exit" =>
       /\ reader = "command"
       /\ value = None
       /\ printed = NoLine /\ beeped = "none"
       /\ last_value = old_last
       /\ pc # "crashed"

C11_Witness ==
    /\ outcome = "nonzero_exit" /\ pc = "sleep_continue"
    /\ extract(text) # None
    /\ old_last # None
    /\ ~Outside(extract(text)) /\ Exceeds(extract(text), old_last)
    /\ last_value = old_last /\ printed = NoLine

\* C12: the file is read anew at every iteration; with range [0, 10] and
\* threshold 0, two iterations that read 7.0 and then 7.5 give exactly one
\* alert, 7.0 -> 7.5; with threshold 0 two successive in-range samples alert
\* exactly when they differ.
C12_ChangedFileAlertsOnce ==
    /\ (pc = "check" /\ outcome \in {"value", "no_number"}) =>
          reader = "file" /\ value = extract(text)
    /\ (/\ Detected /\ attempts = 2
        /\ prev_sample = extract(seven) /\ text = seven_and_a_half) =>
          /\ nalerts = 1
          /\ printed = AlertLine(Fin(7), Double(75, -1))
    /\ (/\ Detected /\ args.threshold = Fin(0)
        /\ prev_sample # None /\ ~Outside(prev_sample) /\ ~Outside(value)) =>
          (printed # NoLine <=> value # prev_sample)

\* C13: beep() never raises: whenever an iteration reaches the alert, the
\* loop survives it, the line is printed and the baseline is updated.
C13_BeepNeverRaises ==
    (/\ Detected
     /\ branch(value, old_last, args.min_value, args.max_value,
               args.threshold) = "alert") =>
       /\ pc # "crashed"
       /\ printed = AlertLine(old_last, value)
       /\ last_value = value

\* an option was given on the command line
Given(option) == option # "absent"

\* C14: the loop is entered only with exactly one source given, every
\* sample attempt reads the source that was given (the command for every
\* --command string, the file for --file), and an invocation with both or
\* neither exits without entering the loop.
C14_ReadsTheConfiguredSource ==
    /\ pc \notin {"parse", "exit_2"} => Given(args.command) # Given(args.file)
    /\ Given(args.command) = Given(args.file) =>
          pc \in {"parse", "exit_2"} /\ reader = "none"
    /\ reader # "none" =>
          /\ Given(args.command) => reader = "command"
          /\ Given(args.file) => reader = "file"

\* C15: an iteration without a sample leaves the baseline as it was at the
\* start of the iteration and fires no alert, up to the next sample attempt.
C15_FailedSampleKeepsBaseline ==
    (attempts > 0 /\ value = None) =>
       /\ last_value = old_last
       /\ printed = NoLine /\ beeped = "none"

C15_Witness ==
    /\ pc = "fetch" /\ attempts > 0
    /\ value = None
    /\ outcome \in {"nonzero_exit", "not_found", "os_error", "no_number"}
    /\ last_value # None /\ last_value = old_last

\* a <= b on floats
Le(a, b) == a.k # "nan" /\ b.k # "nan" /\ ~Gt(a, b)

\* C16: a held baseline lies within the range (min <= baseline, baseline <=
\* max, for the bounds that are given) and is the value of an earlier
\* sample of the run.
C16_BaselineInRangeAndSampled ==
    last_value # None =>
       /\ args.min_value # None => Le(args.min_value, last_value)
       /\ args.max_value # None => Le(last_value, args.max_value)
       /\ last_value \in seen

\* C17: an alert that follows another one with no out-of-range sample in
\* between reports as old the value the earlier one reported as new; the
\* old and the new value of every alert are in range and differ by more
\* than threshold.
C17_AlertsChain ==
    [][(pc = "check" /\ printed' # NoLine) =>
          /\ reported # None => printed'.old = reported
          /\ ~Outside(printed'.old) /\ ~Outside(printed'.new)
          /\ Exceeds(printed'.new, printed'.old)]_vars

C17_Witness ==
    /\ Detected /\ pc = "sleep"
    /\ printed # NoLine
    /\ nalerts = 2
    /\ discarded = None
    /\ NonNegative(args.threshold)

====
